---- MODULE Spec2Model ----
(***************************************************************************)
(* Model of main/cdc.h of tusb_serial_device: the table cdc_obj of CDC     *)
(* interface records, the gate cdc_obj_check, and the four public          *)
(* operations tinyusb_cdc_init, tinyusb_cdc_deinit,                        *)
(* tinyusb_cdc_initialized and tinyusb_cdc_get_intf.                       *)
(*                                                                         *)
(* A C function is an operator from a machine state m (the table, the      *)
(* heap, and the record of what the running call did) to a result          *)
(* [ret, m].  An action runs one whole public call on the current state.   *)
(***************************************************************************)
EXTENDS Integers, FiniteSets, Sequences, TLC

-----------------------------------------------------------------------------
(* Bounds of the model *)

\* heap cells that calloc can hand out are 1..MaxAddr
MaxAddr == 2
\* values of tinyusb_usbdev_t are 0..MaxUsbDev
MaxUsbDev == 1
\* the count of completed init/deinit cycles saturates here
MaxCycles == 2
\* subclass objects the owner of an interface can allocate are 1..MaxSub
MaxSub == 1

-----------------------------------------------------------------------------
(* Program constants *)

\* CDC_INTF_NUM is CFG_TUD_CDC, the number of CDC blocks of the build
CDC_INTF_NUM == 2
NULL == 0
\* tusb_class_code_t: the two values the code names, and the value of zeroed
\* storage, which stands for every class that is neither of the two
TUSB_CLASS_UNSPECIFIED == 0
TUSB_CLASS_CDC == 2
TUSB_CLASS_CDC_DATA == 10
\* the "don't care" expected_type of cdc_obj_check
DONT_CARE == -1
\* cdc_data_sublcass_type_t
TINYUSB_CDC_DATA == 0
\* cdc_comm_sublcass_type_t: abstract control model
CDC_COMM_SUBCLASS_ACM == 2

ESP_OK == "ESP_OK"
ESP_FAIL == "ESP_FAIL"
ESP_ERR_INVALID_ARG == "ESP_ERR_INVALID_ARG"
ESP_ERR_INVALID_STATE == "ESP_ERR_INVALID_STATE"
\* the call did not return: it faulted on a load through a null pointer
FAULT == "FAULT"

-----------------------------------------------------------------------------
(* Value sets *)

Addrs == 1..MaxAddr
Ptrs == {NULL} \cup Addrs
Slots == 0..(CDC_INTF_NUM - 1)
\* interface numbers a caller may pass to init/deinit, in and out of capacity
Itfs == -1..CDC_INTF_NUM
UsbDevs == 0..MaxUsbDev
\* addresses of subclass objects; NULL is none
SubAddrs == 1..MaxSub
ClassCodes == {TUSB_CLASS_UNSPECIFIED, TUSB_CLASS_CDC, TUSB_CLASS_CDC_DATA}
SubclassValues == {TINYUSB_CDC_DATA, CDC_COMM_SUBCLASS_ACM}
\* the union cdc_subclass: which member was last written, and the value held
Members == {"none", "comm_subclass", "data_subclass"}

\* tinyusb_config_cdc_t; cdc_subclass is the value held by the union
Configs == [usb_dev : UsbDevs, cdc_class : ClassCodes, cdc_subclass : SubclassValues]
NoCfg == [usb_dev |-> 0, cdc_class |-> TUSB_CLASS_UNSPECIFIED, cdc_subclass |-> 0]

\* esp_tusb_cdc_t
Objs == [usb_dev : UsbDevs, type : ClassCodes, member : Members,
         cdc_subclass : SubclassValues, subclass_obj : {NULL} \cup SubAddrs]
\* what calloc(1, sizeof(esp_tusb_cdc_t)) returns: all bytes zero
ZeroObj == [usb_dev |-> 0, type |-> 0, member |-> "none", cdc_subclass |-> 0,
            subclass_obj |-> NULL]

\* the tasks that call tinyusb_cdc_init concurrently
Tasks == {1, 2}
\* a call that has not returned has this in place of its esp_err_t
NOT_RETURNED == "NOT_RETURNED"
\* a task before its call
IdleCall == [pc |-> "idle", cfg |-> NoCfg, ret |-> NOT_RETURNED, mine |-> NULL,
             raced |-> FALSE]

\* what a load through a null pointer can produce: a fault, or any value
UBOutcomes == {[fault |-> TRUE, value |-> TUSB_CLASS_UNSPECIFIED]}
              \cup {[fault |-> FALSE, value |-> c] : c \in ClassCodes}

-----------------------------------------------------------------------------
(* State *)

VARIABLES
    cdc_obj,    \* the slot table: Slots -> Ptrs
    heap,       \* the allocated records: a function from a subset of Addrs to Objs
    halted,     \* the program faulted and runs no more
    last,       \* the most recent public call: arguments, result, what it did
    cycles,     \* number of successful deinit calls so far, saturating at MaxCycles
    prev_type,  \* type of the record destroyed by the latest successful deinit
    init_cfg,   \* the cfg of the latest successful init
    subobjs,    \* the allocated subclass objects: a subset of SubAddrs
    calls       \* the tinyusb_cdc_init(0, cfg) call each concurrent task is in

vars == <<cdc_obj, heap, halted, last, cycles, prev_type, init_cfg, subobjs, calls>>

\* the machine state a call starts from
M0 == [cdc_obj |-> cdc_obj, heap |-> heap, trace |-> <<>>, allocs |-> {},
       frees |-> {}, nullread |-> FALSE, nullwrite |-> FALSE]

\* the call entered function f
Enter(m, f) == [m EXCEPT !.trace = Append(@, f)]

-----------------------------------------------------------------------------
(* libc *)

\* p = calloc(1, sizeof(esp_tusb_cdc_t)): p is NULL when the allocation
\* fails, else a cell that was free, now holding a zeroed record
calloc(m, p) ==
    IF p = NULL THEN m
    ELSE [m EXCEPT !.heap = (p :> ZeroObj) @@ m.heap,
                   !.allocs = @ \cup {p}]

\* free(p): free(NULL) does nothing
free(m, p) ==
    IF p = NULL THEN m
    ELSE [m EXCEPT !.heap = [a \in (DOMAIN m.heap) \ {p} |-> m.heap[a]],
                   !.frees = @ \cup {p}]

\* cdc_obj[itf] = p
store(m, itf, p) == [m EXCEPT !.cdc_obj[itf] = p]

\* cdc_obj[itf]->field = v
write(m, itf, field, v) ==
    IF m.cdc_obj[itf] = NULL THEN [m EXCEPT !.nullwrite = TRUE]
    ELSE [m EXCEPT !.heap[m.cdc_obj[itf]][field] = v]

-----------------------------------------------------------------------------
(* Common CDC functions *)

tinyusb_cdc_initialized(m, itf) == m.cdc_obj[itf] # NULL

cdc_interface_check(m, itf) ==
    IF tinyusb_cdc_initialized(m, itf) THEN ESP_OK ELSE ESP_ERR_INVALID_STATE

\* cdc_obj_check with the type test made before the state test
cdc_obj_check_TypeFirst(m, itf, expected_inited, expected_type) ==
    LET inited == (m.cdc_obj[itf] # NULL) IN
    IF inited /\ expected_type # DONT_CARE
              /\ ~(m.heap[m.cdc_obj[itf]].type = expected_type)
    THEN ESP_ERR_INVALID_ARG
    ELSE IF expected_inited # inited THEN ESP_ERR_INVALID_STATE
    ELSE ESP_OK

\* cdc_obj_check with the state test inverted
cdc_obj_check_Inverted(m, itf, expected_inited, expected_type) ==
    LET inited == (m.cdc_obj[itf] # NULL) IN
    IF expected_inited = inited THEN ESP_ERR_INVALID_STATE
    ELSE IF inited /\ expected_type # DONT_CARE
               /\ ~(m.heap[m.cdc_obj[itf]].type = expected_type)
         THEN ESP_ERR_INVALID_ARG
    ELSE ESP_OK

\* cdc_obj_check without the state test
cdc_obj_check_NoStateTest(m, itf, expected_inited, expected_type) ==
    LET inited == (m.cdc_obj[itf] # NULL) IN
    IF inited /\ expected_inited /\ expected_type # DONT_CARE
              /\ ~(m.heap[m.cdc_obj[itf]].type = expected_type)
    THEN ESP_ERR_INVALID_ARG
    ELSE ESP_OK

cdc_obj_check(m, itf, expected_inited, expected_type) ==
    LET inited == (m.cdc_obj[itf] # NULL) IN
    IF expected_inited # inited THEN ESP_ERR_INVALID_STATE
    ELSE IF inited /\ expected_type # DONT_CARE
               /\ ~(m.heap[m.cdc_obj[itf]].type = expected_type)
         THEN ESP_ERR_INVALID_ARG
    ELSE ESP_OK

\* tinyusb_cdc_get_intf with the test of cdc_interface_check inverted
tinyusb_cdc_get_intf_Inverted(m, itf_num) ==
    IF cdc_interface_check(m, itf_num) = ESP_OK THEN NULL
    ELSE m.cdc_obj[itf_num]

tinyusb_cdc_get_intf(m, itf_num) ==
    IF cdc_interface_check(m, itf_num) # ESP_OK THEN NULL
    ELSE m.cdc_obj[itf_num]

-----------------------------------------------------------------------------
(* CDC class funcs: each returns [ret, m] *)

\* tusb_cdc_comm_init without the test of what calloc returned
tusb_cdc_comm_init_NoNullTest(m, itf, p) ==
    LET m1 == Enter(m, "tusb_cdc_comm_init")
        chk == cdc_obj_check(m1, itf, FALSE, DONT_CARE)
        m2 == store(calloc(m1, p), itf, p)
    IN  IF chk # ESP_OK THEN [ret |-> chk, m |-> m1]
        ELSE [ret |-> ESP_OK, m |-> write(m2, itf, "type", TUSB_CLASS_CDC)]

tusb_cdc_comm_init(m, itf, p) ==
    LET m1 == Enter(m, "tusb_cdc_comm_init")
        chk == cdc_obj_check(m1, itf, FALSE, DONT_CARE)
        m2 == store(calloc(m1, p), itf, p)
    IN  IF chk # ESP_OK THEN [ret |-> chk, m |-> m1]
        ELSE IF m2.cdc_obj[itf] # NULL
             THEN [ret |-> ESP_OK, m |-> write(m2, itf, "type", TUSB_CLASS_CDC)]
        ELSE [ret |-> ESP_FAIL, m |-> m2]

\* tusb_cdc_deinit_comm returning after the gate, the record still in place
tusb_cdc_deinit_comm_NoReset(m, itf) ==
    LET m1 == Enter(m, "tusb_cdc_deinit_comm")
        chk == cdc_obj_check(m1, itf, TRUE, TUSB_CLASS_CDC)
    IN  IF chk # ESP_OK THEN [ret |-> chk, m |-> m1]
        ELSE [ret |-> ESP_OK, m |-> m1]

tusb_cdc_deinit_comm(m, itf) ==
    LET m1 == Enter(m, "tusb_cdc_deinit_comm")
        chk == cdc_obj_check(m1, itf, TRUE, TUSB_CLASS_CDC)
    IN  IF chk # ESP_OK THEN [ret |-> chk, m |-> m1]
        ELSE [ret |-> ESP_OK, m |-> store(free(m1, m1.cdc_obj[itf]), itf, NULL)]

\* tusb_cdc_data_init without the write of the type
tusb_cdc_data_init_NoType(m, itf, p) ==
    LET m1 == Enter(m, "tusb_cdc_data_init")
        chk == cdc_obj_check(m1, itf, FALSE, TUSB_CLASS_CDC_DATA)
        m2 == store(calloc(m1, p), itf, p)
    IN  IF chk # ESP_OK THEN [ret |-> chk, m |-> m1]
        ELSE IF m2.cdc_obj[itf] # NULL
             THEN [ret |-> ESP_OK, m |-> m2]
        ELSE [ret |-> ESP_FAIL, m |-> m2]

tusb_cdc_data_init(m, itf, p) ==
    LET m1 == Enter(m, "tusb_cdc_data_init")
        chk == cdc_obj_check(m1, itf, FALSE, TUSB_CLASS_CDC_DATA)
        m2 == store(calloc(m1, p), itf, p)
    IN  IF chk # ESP_OK THEN [ret |-> chk, m |-> m1]
        ELSE IF m2.cdc_obj[itf] # NULL
             THEN [ret |-> ESP_OK, m |-> write(m2, itf, "type", TUSB_CLASS_CDC_DATA)]
        ELSE [ret |-> ESP_FAIL, m |-> m2]

\* tusb_cdc_deinit_data without the free
tusb_cdc_deinit_data_NoFree(m, itf) ==
    LET m1 == Enter(m, "tusb_cdc_deinit_data")
        chk == cdc_obj_check(m1, itf, TRUE, TUSB_CLASS_CDC_DATA)
    IN  IF chk # ESP_OK THEN [ret |-> chk, m |-> m1]
        ELSE [ret |-> ESP_OK, m |-> store(m1, itf, NULL)]

tusb_cdc_deinit_data(m, itf) ==
    LET m1 == Enter(m, "tusb_cdc_deinit_data")
        chk == cdc_obj_check(m1, itf, TRUE, TUSB_CLASS_CDC_DATA)
    IN  IF chk # ESP_OK THEN [ret |-> chk, m |-> m1]
        ELSE [ret |-> ESP_OK, m |-> store(free(m1, m1.cdc_obj[itf]), itf, NULL)]

-----------------------------------------------------------------------------
(* CDC initialization: each returns [ret, m] *)

\* tinyusb_cdc_init rejecting only the interface numbers outside the table
tinyusb_cdc_init_RangeTest(m, itf, cfg, p) ==
    IF itf < 0 \/ itf >= CDC_INTF_NUM THEN [ret |-> ESP_ERR_INVALID_ARG, m |-> m]
    ELSE IF cfg.cdc_class = TUSB_CLASS_CDC
    THEN LET r == tusb_cdc_comm_init(m, itf, p) IN
         IF r.ret # ESP_OK THEN r
         ELSE [ret |-> ESP_OK,
               m |-> write(write(write(r.m, itf, "member", "comm_subclass"),
                                 itf, "cdc_subclass", cfg.cdc_subclass),
                           itf, "usb_dev", cfg.usb_dev)]
    ELSE LET r == tusb_cdc_data_init(m, itf, p) IN
         IF r.ret # ESP_OK THEN r
         ELSE [ret |-> ESP_OK,
               m |-> write(write(write(r.m, itf, "member", "data_subclass"),
                                 itf, "cdc_subclass", cfg.cdc_subclass),
                           itf, "usb_dev", cfg.usb_dev)]

\* tinyusb_cdc_init rejecting a cdc_class that is neither of the two
tinyusb_cdc_init_RejectOther(m, itf, cfg, p) ==
    IF itf # 0 THEN [ret |-> ESP_ERR_INVALID_ARG, m |-> m]
    ELSE IF cfg.cdc_class = TUSB_CLASS_CDC
    THEN LET r == tusb_cdc_comm_init(m, itf, p) IN
         IF r.ret # ESP_OK THEN r
         ELSE [ret |-> ESP_OK,
               m |-> write(write(write(r.m, itf, "member", "comm_subclass"),
                                 itf, "cdc_subclass", cfg.cdc_subclass),
                           itf, "usb_dev", cfg.usb_dev)]
    ELSE IF cfg.cdc_class = TUSB_CLASS_CDC_DATA
    THEN LET r == tusb_cdc_data_init(m, itf, p) IN
         IF r.ret # ESP_OK THEN r
         ELSE [ret |-> ESP_OK,
               m |-> write(write(write(r.m, itf, "member", "data_subclass"),
                                 itf, "cdc_subclass", cfg.cdc_subclass),
                           itf, "usb_dev", cfg.usb_dev)]
    ELSE [ret |-> ESP_ERR_INVALID_ARG, m |-> m]

\* tinyusb_cdc_init without the copy of cfg->usb_dev
tinyusb_cdc_init_NoUsbDev(m, itf, cfg, p) ==
    IF itf # 0 THEN [ret |-> ESP_ERR_INVALID_ARG, m |-> m]
    ELSE IF cfg.cdc_class = TUSB_CLASS_CDC
    THEN LET r == tusb_cdc_comm_init(m, itf, p) IN
         IF r.ret # ESP_OK THEN r
         ELSE [ret |-> ESP_OK,
               m |-> write(write(r.m, itf, "member", "comm_subclass"),
                           itf, "cdc_subclass", cfg.cdc_subclass)]
    ELSE LET r == tusb_cdc_data_init(m, itf, p) IN
         IF r.ret # ESP_OK THEN r
         ELSE [ret |-> ESP_OK,
               m |-> write(write(r.m, itf, "member", "data_subclass"),
                           itf, "cdc_subclass", cfg.cdc_subclass)]

\* p is what calloc returns if the call reaches it
tinyusb_cdc_init(m, itf, cfg, p) ==
    IF itf # 0 THEN [ret |-> ESP_ERR_INVALID_ARG, m |-> m]
    ELSE IF cfg.cdc_class = TUSB_CLASS_CDC
    THEN LET r == tusb_cdc_comm_init(m, itf, p) IN
         IF r.ret # ESP_OK THEN r
         ELSE [ret |-> ESP_OK,
               m |-> write(write(write(r.m, itf, "member", "comm_subclass"),
                                 itf, "cdc_subclass", cfg.cdc_subclass),
                           itf, "usb_dev", cfg.usb_dev)]
    ELSE LET r == tusb_cdc_data_init(m, itf, p) IN
         IF r.ret # ESP_OK THEN r
         ELSE [ret |-> ESP_OK,
               m |-> write(write(write(r.m, itf, "member", "data_subclass"),
                                 itf, "cdc_subclass", cfg.cdc_subclass),
                           itf, "usb_dev", cfg.usb_dev)]

\* tinyusb_cdc_deinit falling through to the final return on an unknown type
tinyusb_cdc_deinit_ElseOk(m, itf, u) ==
    IF itf # 0 THEN [ret |-> ESP_ERR_INVALID_ARG, m |-> m]
    ELSE LET isnull == (m.cdc_obj[itf] = NULL)
             m1 == [m EXCEPT !.nullread = isnull]
             type == IF isnull THEN u.value ELSE m.heap[m.cdc_obj[itf]].type
         IN  IF isnull /\ u.fault THEN [ret |-> FAULT, m |-> m1]
             ELSE IF type = TUSB_CLASS_CDC THEN tusb_cdc_deinit_comm(m1, itf)
             ELSE IF type = TUSB_CLASS_CDC_DATA THEN tusb_cdc_deinit_data(m1, itf)
             ELSE [ret |-> ESP_OK, m |-> m1]

\* tinyusb_cdc_deinit with the two teardown calls exchanged
tinyusb_cdc_deinit_Swapped(m, itf, u) ==
    IF itf # 0 THEN [ret |-> ESP_ERR_INVALID_ARG, m |-> m]
    ELSE LET isnull == (m.cdc_obj[itf] = NULL)
             m1 == [m EXCEPT !.nullread = isnull]
             type == IF isnull THEN u.value ELSE m.heap[m.cdc_obj[itf]].type
         IN  IF isnull /\ u.fault THEN [ret |-> FAULT, m |-> m1]
             ELSE IF type = TUSB_CLASS_CDC THEN tusb_cdc_deinit_data(m1, itf)
             ELSE IF type = TUSB_CLASS_CDC_DATA THEN tusb_cdc_deinit_comm(m1, itf)
             ELSE [ret |-> ESP_ERR_INVALID_ARG, m |-> m1]

\* cdc_obj[itf]->type is read before any check of cdc_obj[itf]: with a null
\* cdc_obj[itf] the load is undefined, and u is what it produces
tinyusb_cdc_deinit(m, itf, u) ==
    IF itf # 0 THEN [ret |-> ESP_ERR_INVALID_ARG, m |-> m]
    ELSE LET isnull == (m.cdc_obj[itf] = NULL)
             m1 == [m EXCEPT !.nullread = isnull]
             type == IF isnull THEN u.value ELSE m.heap[m.cdc_obj[itf]].type
         IN  IF isnull /\ u.fault THEN [ret |-> FAULT, m |-> m1]
             ELSE IF type = TUSB_CLASS_CDC THEN tusb_cdc_deinit_comm(m1, itf)
             ELSE IF type = TUSB_CLASS_CDC_DATA THEN tusb_cdc_deinit_data(m1, itf)
             ELSE [ret |-> ESP_ERR_INVALID_ARG, m |-> m1]

-----------------------------------------------------------------------------
(* The program: one action per public call *)

TypeOK ==
    /\ cdc_obj \in [Slots -> Ptrs]
    /\ DOMAIN heap \subseteq Addrs
    /\ \A a \in DOMAIN heap : heap[a] \in Objs
    /\ halted \in BOOLEAN
    /\ cycles \in 0..MaxCycles
    /\ prev_type \in ClassCodes
    /\ init_cfg \in Configs
    /\ subobjs \subseteq SubAddrs

\* cdc_obj[CDC_INTF_NUM] = {}
Init ==
    /\ cdc_obj = [i \in Slots |-> NULL]
    /\ heap = << >>
    /\ halted = FALSE
    /\ last = [op |-> "none", itf |-> 0, cfg |-> NoCfg, p |-> NULL, ret |-> ESP_OK,
               flag |-> FALSE, ptr |-> NULL, trace |-> << >>, allocs |-> {},
               frees |-> {}, nullread |-> FALSE, nullwrite |-> FALSE,
               pre_obj |-> [i \in Slots |-> NULL], pre_heap |-> << >>]
    /\ cycles = 0
    /\ prev_type = TUSB_CLASS_UNSPECIFIED
    /\ init_cfg = NoCfg
    /\ subobjs = {}
    /\ calls = [t \in Tasks |-> IdleCall]

\* the call op(itf, ...) ran from the current state and ended in r
Commit(op, itf, cfg, p, r, flag, ptr) ==
    /\ cdc_obj' = r.m.cdc_obj
    /\ heap' = r.m.heap
    /\ halted' = (r.ret = FAULT \/ r.m.nullwrite)
    /\ last' = [op |-> op, itf |-> itf, cfg |-> cfg, p |-> p, ret |-> r.ret,
                flag |-> flag, ptr |-> ptr, trace |-> r.m.trace,
                allocs |-> r.m.allocs, frees |-> r.m.frees,
                nullread |-> r.m.nullread, nullwrite |-> r.m.nullwrite,
                pre_obj |-> cdc_obj, pre_heap |-> heap]
    /\ UNCHANGED <<subobjs, calls>>

CallInit(itf, cfg, p) ==
    /\ ~halted
    /\ LET r == tinyusb_cdc_init(M0, itf, cfg, p)
       IN  /\ Commit("tinyusb_cdc_init", itf, cfg, p, r, FALSE, NULL)
           /\ init_cfg' = IF r.ret = ESP_OK THEN cfg ELSE init_cfg
    /\ UNCHANGED <<cycles, prev_type>>

CallDeinit(itf, u) ==
    /\ ~halted
    /\ LET r == tinyusb_cdc_deinit(M0, itf, u)
           done == (r.ret = ESP_OK)
       IN  /\ Commit("tinyusb_cdc_deinit", itf, NoCfg, NULL, r, FALSE, NULL)
           /\ cycles' = IF done /\ cycles < MaxCycles THEN cycles + 1 ELSE cycles
           /\ prev_type' = IF done /\ r.m.frees # {}
                           THEN heap[cdc_obj[itf]].type ELSE prev_type
    /\ UNCHANGED init_cfg

CallInitialized(itf) ==
    /\ ~halted
    /\ Commit("tinyusb_cdc_initialized", itf, NoCfg, NULL, [ret |-> ESP_OK, m |-> M0],
              tinyusb_cdc_initialized(M0, itf), NULL)
    /\ UNCHANGED <<cycles, prev_type, init_cfg>>

CallGetIntf(itf) ==
    /\ ~halted
    /\ Commit("tinyusb_cdc_get_intf", itf, NoCfg, NULL, [ret |-> ESP_OK, m |-> M0],
              FALSE, tinyusb_cdc_get_intf(M0, itf))
    /\ UNCHANGED <<cycles, prev_type, init_cfg>>

\* calloc fails, or returns a cell that is not allocated
CallocResults == {NULL} \cup (Addrs \ DOMAIN heap)

Next ==
    \/ \E itf \in Itfs, cfg \in Configs, p \in CallocResults : CallInit(itf, cfg, p)
    \/ \E itf \in Itfs, u \in UBOutcomes : CallDeinit(itf, u)
    \/ \E itf \in Slots : CallInitialized(itf)
    \/ \E itf \in Slots : CallGetIntf(itf)

Spec == Init /\ [][Next]_vars

-----------------------------------------------------------------------------
(* The program with the owner of the interface: the code that holds the
   pointer tinyusb_cdc_get_intf(0) returned and writes the record through it *)

\* what an owner step leaves in last
OwnerLast(ptr) ==
    [op |-> "owner", itf |-> 0, cfg |-> NoCfg, p |-> NULL, ret |-> ESP_OK,
     flag |-> FALSE, ptr |-> ptr, trace |-> << >>, allocs |-> {}, frees |-> {},
     nullread |-> FALSE, nullwrite |-> FALSE, pre_obj |-> cdc_obj, pre_heap |-> heap]

\* intf = tinyusb_cdc_get_intf(0); intf->subclass_obj = s, a fresh object
OwnerAttach(s) ==
    /\ ~halted
    /\ LET intf == tinyusb_cdc_get_intf(M0, 0) IN
       /\ intf # NULL
       /\ heap[intf].subclass_obj = NULL
       /\ s \notin subobjs
       /\ heap' = [heap EXCEPT ![intf].subclass_obj = s]
       /\ subobjs' = subobjs \cup {s}
       /\ last' = OwnerLast(intf)
    /\ UNCHANGED <<cdc_obj, halted, cycles, prev_type, init_cfg, calls>>

\* intf = tinyusb_cdc_get_intf(0); intf->type = t
OwnerSetType(t) ==
    /\ ~halted
    /\ LET intf == tinyusb_cdc_get_intf(M0, 0) IN
       /\ intf # NULL
       /\ heap[intf].type # t
       /\ heap' = [heap EXCEPT ![intf].type = t]
       /\ last' = OwnerLast(intf)
    /\ UNCHANGED <<cdc_obj, halted, cycles, prev_type, init_cfg, subobjs, calls>>

\* the configs the owner's program passes: one per class
OwnerConfigs == {cfg \in Configs : cfg.usb_dev = 0 /\ cfg.cdc_subclass = TINYUSB_CDC_DATA}

NextOwner ==
    \/ \E cfg \in OwnerConfigs, p \in CallocResults : CallInit(0, cfg, p)
    \/ \E u \in UBOutcomes : CallDeinit(0, u)
    \/ CallGetIntf(0)
    \/ \E s \in SubAddrs : OwnerAttach(s)
    \/ \E t \in ClassCodes : OwnerSetType(t)

SpecOwner == Init /\ [][NextOwner]_vars

-----------------------------------------------------------------------------
(* Two tasks, each making one call tinyusb_cdc_init(0, cfg), with no lock:
   a call is three steps, its gate, its calloc and store with the write of
   the type, and its writes of the subclass and the device *)

InFlight(t) == calls[t].pc \in {"gate", "alloc", "fields"}

\* tinyusb_cdc_init up to the call of cdc_obj_check: itf is 0 and the path
\* is chosen from cfg->cdc_class
InitEnter(t, cfg) ==
    /\ calls[t].pc = "idle"
    /\ calls' = [calls EXCEPT ![t] = [@ EXCEPT !.pc = "gate", !.cfg = cfg,
                     !.raced = \E o \in Tasks \ {t} : InFlight(o)]]
    /\ UNCHANGED <<cdc_obj, heap>>

\* cdc_obj_check(itf, false, -1) in tusb_cdc_comm_init, or
\* cdc_obj_check(itf, false, TUSB_CLASS_CDC_DATA) in tusb_cdc_data_init
InitGate(t) ==
    /\ calls[t].pc = "gate"
    /\ LET et == IF calls[t].cfg.cdc_class = TUSB_CLASS_CDC
                 THEN DONT_CARE ELSE TUSB_CLASS_CDC_DATA
           chk == cdc_obj_check(M0, 0, FALSE, et)
       IN  calls' = [calls EXCEPT ![t] =
                        IF chk # ESP_OK THEN [@ EXCEPT !.pc = "done", !.ret = chk]
                        ELSE [@ EXCEPT !.pc = "alloc"]]
    /\ UNCHANGED <<cdc_obj, heap>>

\* cdc_obj[itf] = calloc(...); if it is not NULL, cdc_obj[itf]->type = ...
InitAllocStore(t, p) ==
    /\ calls[t].pc = "alloc"
    /\ LET type == IF calls[t].cfg.cdc_class = TUSB_CLASS_CDC
                   THEN TUSB_CLASS_CDC ELSE TUSB_CLASS_CDC_DATA
           m2 == store(calloc(M0, p), 0, p)
           m3 == IF m2.cdc_obj[0] # NULL THEN write(m2, 0, "type", type) ELSE m2
       IN  /\ cdc_obj' = m3.cdc_obj
           /\ heap' = m3.heap
           /\ calls' = [calls EXCEPT ![t] =
                            IF m2.cdc_obj[0] # NULL
                            THEN [@ EXCEPT !.pc = "fields", !.mine = p]
                            ELSE [@ EXCEPT !.pc = "done", !.ret = ESP_FAIL]]

\* back in tinyusb_cdc_init: the subclass and usb_dev are written through
\* cdc_obj[itf] as it is now
InitFields(t) ==
    /\ calls[t].pc = "fields"
    /\ LET cfg == calls[t].cfg
           member == IF cfg.cdc_class = TUSB_CLASS_CDC
                     THEN "comm_subclass" ELSE "data_subclass"
           m3 == write(write(write(M0, 0, "member", member),
                             0, "cdc_subclass", cfg.cdc_subclass),
                       0, "usb_dev", cfg.usb_dev)
       IN  /\ heap' = m3.heap
           /\ calls' = [calls EXCEPT ![t] = [@ EXCEPT !.pc = "done", !.ret = ESP_OK]]
    /\ UNCHANGED cdc_obj

NextConc ==
    /\ \/ \E t \in Tasks, cfg \in Configs : InitEnter(t, cfg)
       \/ \E t \in Tasks : InitGate(t)
       \/ \E t \in Tasks, p \in CallocResults : InitAllocStore(t, p)
       \/ \E t \in Tasks : InitFields(t)
    /\ UNCHANGED <<halted, last, cycles, prev_type, init_cfg, subobjs>>

SpecConc == Init /\ [][NextConc]_vars

-----------------------------------------------------------------------------
(* Vocabulary of the properties *)

IsInit == last.op = "tinyusb_cdc_init"
IsDeinit == last.op = "tinyusb_cdc_deinit"
IsGetIntf == last.op = "tinyusb_cdc_get_intf"
IsInitialized == last.op = "tinyusb_cdc_initialized"

\* the state of slot i before the latest call, and now
WasEmpty(i) == last.pre_obj[i] = NULL
WasOccupied(i) == last.pre_obj[i] # NULL
Empty(i) == cdc_obj[i] = NULL
Occupied(i) == cdc_obj[i] # NULL
\* the record slot i held before the latest call, and holds now
WasRecord(i) == last.pre_heap[last.pre_obj[i]]
Record(i) == heap[cdc_obj[i]]

\* the latest call left the table and every record as they were
TableUnchanged == cdc_obj = last.pre_obj /\ heap = last.pre_heap
\* the latest call allocated nothing and freed nothing
NoAllocNoFree == last.allocs = {} /\ last.frees = {}

ValidClass(cfg) == cfg.cdc_class \in {TUSB_CLASS_CDC, TUSB_CLASS_CDC_DATA}

-----------------------------------------------------------------------------
(* Properties *)

\* C1: tinyusb_cdc_deinit(0) on an empty slot 0 returns
\* ESP_ERR_INVALID_STATE, allocates and frees nothing, does not read through
\* the null slot entry, and leaves the table unchanged.
C1_DeinitEmptyFailsCleanly ==
    (IsDeinit /\ last.itf = 0 /\ WasEmpty(0)) =>
        /\ last.ret = ESP_ERR_INVALID_STATE
        /\ NoAllocNoFree
        /\ ~last.nullread
        /\ TableUnchanged

C4_InitEmptySucceeds ==
    (IsInit /\ last.itf = 0 /\ WasEmpty(0) /\ ValidClass(last.cfg) /\ last.p # NULL) =>
        /\ last.ret = ESP_OK
        /\ tinyusb_cdc_initialized(M0, 0)

\* a Data init succeeded on the empty slot
C4_Witness ==
    /\ IsInit /\ last.itf = 0 /\ WasEmpty(0) /\ last.p # NULL
    /\ last.cfg.cdc_class = TUSB_CLASS_CDC_DATA
    /\ last.ret = ESP_OK
    /\ tinyusb_cdc_initialized(M0, 0)

\* C5: from an empty slot 0 a Communications init succeeds, after which
\* tinyusb_cdc_initialized(0) is true and tinyusb_cdc_get_intf(0) is a record
\* of type Communications; tinyusb_cdc_deinit(0) on the occupied slot returns
\* ESP_OK, after which tinyusb_cdc_initialized(0) is false; the next init on
\* the emptied slot succeeds with the class it asks for.  The same with the
\* two classes exchanged, and after any number of completed cycles.
C5_RoundTripAndReuse ==
    /\ (IsInit /\ last.itf = 0 /\ WasEmpty(0) /\ ValidClass(last.cfg) /\ last.p # NULL) =>
          /\ last.ret = ESP_OK
          /\ tinyusb_cdc_initialized(M0, 0)
          /\ tinyusb_cdc_get_intf(M0, 0) # NULL
          /\ heap[tinyusb_cdc_get_intf(M0, 0)].type = last.cfg.cdc_class
    /\ (IsDeinit /\ last.itf = 0 /\ WasOccupied(0)) =>
          /\ last.ret = ESP_OK
          /\ ~tinyusb_cdc_initialized(M0, 0)
          /\ tinyusb_cdc_get_intf(M0, 0) = NULL
          /\ prev_type = WasRecord(0).type
          /\ cycles > 0

\* a Data init succeeded on a slot that a deinit had emptied of a
\* Communications record, after the cycle bound was reached
C5_Witness ==
    /\ IsInit /\ last.itf = 0 /\ WasEmpty(0) /\ last.ret = ESP_OK
    /\ last.cfg.cdc_class = TUSB_CLASS_CDC_DATA
    /\ prev_type = TUSB_CLASS_CDC
    /\ cycles = MaxCycles
    /\ Occupied(0) /\ Record(0).type = TUSB_CLASS_CDC_DATA

\* C6: when calloc fails, tinyusb_cdc_init(0, cfg) on an empty slot returns
\* ESP_FAIL from tusb_cdc_comm_init or tusb_cdc_data_init, writes nothing
\* through the null slot entry and leaves slot 0 empty; and every failing
\* tinyusb_cdc_init leaves the table and the records as they were.
C6_AllocFailureLeavesEmpty ==
    /\ (IsInit /\ last.itf = 0 /\ WasEmpty(0) /\ last.p = NULL) =>
          /\ last.ret = ESP_FAIL
          /\ last.trace = IF last.cfg.cdc_class = TUSB_CLASS_CDC
                          THEN <<"tusb_cdc_comm_init">> ELSE <<"tusb_cdc_data_init">>
          /\ ~last.nullwrite
          /\ Empty(0)
          /\ heap = last.pre_heap
    /\ (IsInit /\ last.ret # ESP_OK) => TableUnchanged /\ ~last.nullwrite

\* calloc failed in a Communications init of the empty slot
C6_Witness ==
    /\ IsInit /\ last.itf = 0 /\ WasEmpty(0) /\ last.p = NULL
    /\ last.cfg.cdc_class = TUSB_CLASS_CDC
    /\ last.ret = ESP_FAIL
    /\ Empty(0)

\* the union member that belongs to a class
MemberOf(type) == IF type = TUSB_CLASS_CDC THEN "comm_subclass" ELSE "data_subclass"

\* C7: after a successful tinyusb_cdc_init(0, cfg) with cfg.cdc_class
\* Communications or Data, slot 0 holds a record with type = cfg.cdc_class,
\* the subclass member of that class equal to cfg's subclass, and usb_dev =
\* cfg.usb_dev; and in every state between two public calls an occupied slot
\* 0 has its subclass member set, matching its type, and holds the subclass
\* and usb_dev of the init that made it.
C7_InitStoresConfig ==
    /\ (IsInit /\ last.ret = ESP_OK /\ ValidClass(last.cfg)) =>
          /\ last.itf = 0
          /\ Occupied(0)
          /\ Record(0).type = last.cfg.cdc_class
          /\ Record(0).member = MemberOf(last.cfg.cdc_class)
          /\ Record(0).cdc_subclass = last.cfg.cdc_subclass
          /\ Record(0).usb_dev = last.cfg.usb_dev
    /\ Occupied(0) =>
          /\ Record(0).member = MemberOf(Record(0).type)
          /\ Record(0).cdc_subclass = init_cfg.cdc_subclass
          /\ Record(0).usb_dev = init_cfg.usb_dev

\* a Communications init stored a subclass and a device that differ from
\* what calloc's zeroed record holds
C7_Witness ==
    /\ IsInit /\ last.ret = ESP_OK /\ last.itf = 0
    /\ last.cfg = [usb_dev |-> MaxUsbDev, cdc_class |-> TUSB_CLASS_CDC,
                   cdc_subclass |-> CDC_COMM_SUBCLASS_ACM]
    /\ Occupied(0)
    /\ Record(0).cdc_subclass = CDC_COMM_SUBCLASS_ACM
    /\ Record(0).usb_dev = MaxUsbDev

\* the type tinyusb_cdc_init stores for a cfg
StoredType(cfg) ==
    IF cfg.cdc_class = TUSB_CLASS_CDC THEN TUSB_CLASS_CDC ELSE TUSB_CLASS_CDC_DATA

\* C8: tinyusb_cdc_get_intf(0) returns NULL exactly when slot 0 is empty;
\* on an occupied slot it returns the pointer stored in the slot, to a
\* record whose type and subclass are those the latest successful init
\* stored.  It never changes the table.
C8_GetIntf ==
    (IsGetIntf /\ last.itf = 0) =>
        /\ (last.ptr = NULL) <=> WasEmpty(0)
        /\ WasOccupied(0) =>
              /\ last.ptr = cdc_obj[0]
              /\ heap[last.ptr].type = StoredType(init_cfg)
              /\ heap[last.ptr].member = MemberOf(StoredType(init_cfg))
              /\ heap[last.ptr].cdc_subclass = init_cfg.cdc_subclass
        /\ TableUnchanged
        /\ NoAllocNoFree

\* tinyusb_cdc_get_intf(0) returned the record of an occupied slot
C8_Witness ==
    /\ IsGetIntf /\ last.itf = 0 /\ WasOccupied(0)
    /\ last.ptr # NULL
    /\ heap[last.ptr].type = TUSB_CLASS_CDC
    /\ heap[last.ptr].cdc_subclass = CDC_COMM_SUBCLASS_ACM

\* C9: tinyusb_cdc_deinit(0) takes no class from its caller and chooses the
\* teardown from the type stored in the slot: on a Communications record it
\* runs tusb_cdc_deinit_comm and not tusb_cdc_deinit_data, on a Data record
\* tusb_cdc_deinit_data and not tusb_cdc_deinit_comm; the gate of the chosen
\* teardown passes, the record is freed and the slot ends empty.
C9_DeinitDispatch ==
    (IsDeinit /\ last.itf = 0 /\ WasOccupied(0)) =>
        /\ WasRecord(0).type = TUSB_CLASS_CDC =>
              last.trace = <<"tusb_cdc_deinit_comm">>
        /\ WasRecord(0).type = TUSB_CLASS_CDC_DATA =>
              last.trace = <<"tusb_cdc_deinit_data">>
        /\ WasRecord(0).type \in {TUSB_CLASS_CDC, TUSB_CLASS_CDC_DATA} =>
              /\ last.ret = ESP_OK
              /\ last.frees = {last.pre_obj[0]}
              /\ Empty(0)

\* a record made by a Communications init was torn down by tusb_cdc_deinit_comm
C9_Witness ==
    /\ IsDeinit /\ last.itf = 0 /\ WasOccupied(0)
    /\ WasRecord(0).type = TUSB_CLASS_CDC
    /\ init_cfg.cdc_class = TUSB_CLASS_CDC
    /\ last.trace = <<"tusb_cdc_deinit_comm">>
    /\ last.ret = ESP_OK /\ Empty(0)

\* C10: the type of slot 0 never changes while the slot stays occupied: no
\* step leads from an occupied slot to an occupied slot of another type, so
\* between two states of different type there is a state with the slot empty.
C10_TypeStableWhileOccupied ==
    [][(cdc_obj[0] # NULL /\ cdc_obj'[0] # NULL) =>
          heap'[cdc_obj'[0]].type = heap[cdc_obj[0]].type]_vars

\* slot 0 holds a Data record after having held a Communications record
C10_Witness ==
    /\ Occupied(0) /\ Record(0).type = TUSB_CLASS_CDC_DATA
    /\ prev_type = TUSB_CLASS_CDC
    /\ cycles > 0
    /\ (IsGetIntf \/ IsInitialized)

\* C11: only slot 0 is ever occupied: every other slot of the table is empty
\* in every reachable state, so tinyusb_cdc_initialized(i) is false for
\* every i # 0 in capacity, also right after a rejected tinyusb_cdc_init(1, cfg).
C11_OnlySlotZero ==
    /\ \A i \in Slots \ {0} : cdc_obj[i] = NULL /\ ~tinyusb_cdc_initialized(M0, i)
    /\ (IsInitialized /\ last.itf # 0) => last.flag = FALSE

\* tinyusb_cdc_initialized(1) answered false after slot 0 had been occupied
\* and a tinyusb_cdc_init had succeeded
C11_Witness ==
    /\ IsInitialized /\ last.itf = 1 /\ last.flag = FALSE
    /\ Occupied(0)
    /\ init_cfg.cdc_class = TUSB_CLASS_CDC

\* the expected_type values the code passes to cdc_obj_check
ExpectedTypes == {TUSB_CLASS_CDC, TUSB_CLASS_CDC_DATA, DONT_CARE}

\* C15: for slot 0 empty, Communications or Data, and every expected_inited
\* and expected_type, cdc_obj_check returns ESP_ERR_INVALID_STATE iff the
\* occupancy differs from expected_inited; otherwise ESP_ERR_INVALID_ARG iff
\* the slot is occupied, expected_type is not -1 and the stored type differs;
\* otherwise ESP_OK.  With expected_inited false the result does not depend
\* on expected_type.  A call the gate rejects leaves the table as it was.
C15_GateFunction ==
    /\ \A ei \in BOOLEAN, et \in ExpectedTypes :
          LET r == cdc_obj_check(M0, 0, ei, et)
              mismatch == Occupied(0) /\ et # DONT_CARE /\ Record(0).type # et
          IN  /\ (r = ESP_ERR_INVALID_STATE) <=> (Occupied(0) # ei)
              /\ (r = ESP_ERR_INVALID_ARG) <=> (Occupied(0) = ei /\ mismatch)
              /\ (r = ESP_OK) <=> (Occupied(0) = ei /\ ~mismatch)
              /\ cdc_obj_check(M0, 0, FALSE, et) = cdc_obj_check(M0, 0, FALSE, DONT_CARE)
    /\ (IsInit /\ last.itf = 0 /\ WasOccupied(0)) =>
          last.ret = cdc_obj_check([cdc_obj |-> last.pre_obj, heap |-> last.pre_heap],
                                   0, FALSE, DONT_CARE)
    /\ ((IsInit \/ IsDeinit) /\ last.ret = ESP_ERR_INVALID_STATE) => TableUnchanged

\* the gate of tusb_cdc_data_init, called with expected type Data, rejected
\* an init on a slot holding a Communications record with the state error,
\* where a deinit gate expecting Data reports the type error
C15_Witness ==
    /\ IsInit /\ last.itf = 0 /\ last.trace = <<"tusb_cdc_data_init">>
    /\ Occupied(0) /\ Record(0).type = TUSB_CLASS_CDC
    /\ last.ret = ESP_ERR_INVALID_STATE
    /\ cdc_obj_check(M0, 0, FALSE, TUSB_CLASS_CDC_DATA) = ESP_ERR_INVALID_STATE
    /\ cdc_obj_check(M0, 0, TRUE, TUSB_CLASS_CDC_DATA) = ESP_ERR_INVALID_ARG
    /\ cdc_obj_check(M0, 0, TRUE, DONT_CARE) = ESP_OK

\* C16: with the four public calls alone, an occupied slot has type
\* Communications or Data; so tinyusb_cdc_deinit(0) on an occupied slot runs
\* exactly the teardown of that type, whose gate passes, returns ESP_OK and
\* empties the slot: neither the ESP_ERR_INVALID_ARG branch of
\* tinyusb_cdc_deinit nor the type error of the teardown's gate is taken.
C16_OccupiedTypeRecognised ==
    /\ \A i \in Slots : Occupied(i) =>
          Record(i).type \in {TUSB_CLASS_CDC, TUSB_CLASS_CDC_DATA}
    /\ (IsDeinit /\ last.itf = 0 /\ WasOccupied(0)) =>
          /\ last.ret = ESP_OK
          /\ Len(last.trace) = 1
          /\ Empty(0)
    /\ (IsDeinit /\ last.itf = 0 /\ last.ret = ESP_ERR_INVALID_ARG) => WasEmpty(0)

\* a deinit emptied a slot that a Data init had occupied
C16_Witness ==
    /\ IsDeinit /\ last.itf = 0 /\ WasOccupied(0)
    /\ WasRecord(0).type = TUSB_CLASS_CDC_DATA
    /\ init_cfg.cdc_class = TUSB_CLASS_CDC_DATA
    /\ last.ret = ESP_OK /\ Empty(0)

\* the records the table points to
Stored == {cdc_obj[i] : i \in Slots} \ {NULL}

\* C17: under sequential calls the allocated records are exactly the
\* records stored in the table, at most one and in slot 0; a call frees only
\* a record that was allocated and stored (no double free), a freed record
\* is no longer stored, and what a call allocates is stored when it returns.
C17_RecordsAccounted ==
    /\ DOMAIN heap = Stored
    /\ Stored \subseteq {cdc_obj[0]}
    /\ Cardinality(DOMAIN heap) <= 1
    /\ last.frees \subseteq DOMAIN last.pre_heap
    /\ last.frees \cap Stored = {}
    /\ last.allocs \subseteq Stored

\* a second deinit, after one that freed the record, failed and freed nothing
C17_Witness ==
    /\ IsDeinit /\ last.itf = 0 /\ WasEmpty(0)
    /\ cycles > 0
    /\ last.ret = ESP_ERR_INVALID_STATE
    /\ last.frees = {}
    /\ heap = << >>

\* C18: tinyusb_cdc_init rejects no cfg for its class: on an empty slot 0
\* with calloc succeeding it returns ESP_OK, stores type Communications and
\* the comm_subclass member iff cfg.cdc_class is Communications, and type
\* Data and the data_subclass member for every other cfg.cdc_class.
C18_InitClassDispatch ==
    (IsInit /\ last.itf = 0 /\ WasEmpty(0) /\ last.p # NULL) =>
        /\ last.ret = ESP_OK
        /\ Occupied(0)
        /\ (Record(0).type = TUSB_CLASS_CDC) <=> (last.cfg.cdc_class = TUSB_CLASS_CDC)
        /\ (last.cfg.cdc_class # TUSB_CLASS_CDC) =>
              /\ Record(0).type = TUSB_CLASS_CDC_DATA
              /\ Record(0).member = "data_subclass"
              /\ last.trace = <<"tusb_cdc_data_init">>
        /\ (last.cfg.cdc_class = TUSB_CLASS_CDC) =>
              /\ Record(0).member = "comm_subclass"
              /\ last.trace = <<"tusb_cdc_comm_init">>
        /\ Record(0).cdc_subclass = last.cfg.cdc_subclass

\* an init with a class that is neither Communications nor Data succeeded
\* and stored a Data record
C18_Witness ==
    /\ IsInit /\ last.itf = 0 /\ WasEmpty(0) /\ last.p # NULL
    /\ last.cfg.cdc_class = TUSB_CLASS_UNSPECIFIED
    /\ last.cfg.cdc_subclass = CDC_COMM_SUBCLASS_ACM
    /\ last.ret = ESP_OK
    /\ Record(0).type = TUSB_CLASS_CDC_DATA
    /\ Record(0).cdc_subclass = CDC_COMM_SUBCLASS_ACM

\* the subclass objects some allocated record points to
Held == {heap[a].subclass_obj : a \in DOMAIN heap} \ {NULL}

\* C12: a successful tinyusb_cdc_deinit(0) frees the record, releases the
\* subclass object the record pointed to, and empties the slot, so that no
\* subclass object stays allocated without a record that holds it.
C12_DeinitReleasesAll ==
    (IsDeinit /\ last.itf = 0 /\ WasOccupied(0) /\ last.ret = ESP_OK) =>
        /\ last.frees = {last.pre_obj[0]}
        /\ Empty(0)
        /\ WasRecord(0).subclass_obj \notin subobjs
        /\ subobjs \subseteq Held

\* C13: tinyusb_cdc_deinit(0) on a slot occupied by a record whose type is
\* neither Communications nor Data returns ESP_ERR_INVALID_ARG without
\* calling a teardown, frees nothing, and leaves the same record in the slot.
C13_DeinitUnknownType ==
    (IsDeinit /\ last.itf = 0 /\ WasOccupied(0)
       /\ WasRecord(0).type \notin {TUSB_CLASS_CDC, TUSB_CLASS_CDC_DATA}) =>
        /\ last.ret = ESP_ERR_INVALID_ARG
        /\ last.trace = << >>
        /\ NoAllocNoFree
        /\ cdc_obj[0] = last.pre_obj[0]
        /\ Record(0) = WasRecord(0)
        /\ TableUnchanged

\* a deinit was refused on a record made by a Communications init whose type
\* the owner had overwritten
C13_Witness ==
    /\ IsDeinit /\ last.itf = 0 /\ WasOccupied(0)
    /\ init_cfg.cdc_class = TUSB_CLASS_CDC
    /\ WasRecord(0).type = TUSB_CLASS_UNSPECIFIED
    /\ last.ret = ESP_ERR_INVALID_ARG
    /\ Occupied(0) /\ Record(0).type = TUSB_CLASS_UNSPECIFIED

\* both calls returned ESP_OK
BothSucceeded == \A t \in Tasks : calls[t].pc = "done" /\ calls[t].ret = ESP_OK
\* the allocated records the table does not point to
Leaked == DOMAIN heap \ Stored
\* some call started while the other was in flight
Raced == \E t \in Tasks : calls[t].raced

\* C14: nothing in the code keeps two tinyusb_cdc_init(0, cfg) calls apart.
\* When neither call starts while the other is in flight, at most one of
\* them returns ESP_OK and every allocated record is the one in the table;
\* a record allocated and not in the table, or two successes, occur only
\* when the calls overlap.
C14_SequentialInitSafe ==
    ~Raced => /\ Leaked = {}
              /\ ~BothSucceeded
              /\ Cardinality(DOMAIN heap) <= 1

\* the interleaving of the claim: both calls passed the gate on the empty
\* slot, both returned ESP_OK, the record the first call stored is still
\* allocated and the table points to the record of the second
C14_Witness ==
    /\ BothSucceeded
    /\ calls[1].mine # NULL /\ calls[2].mine # NULL /\ calls[1].mine # calls[2].mine
    /\ calls[1].mine \in Leaked
    /\ cdc_obj[0] = calls[2].mine
    /\ calls[1].cfg.cdc_class = TUSB_CLASS_CDC
    /\ calls[2].cfg.cdc_class = TUSB_CLASS_CDC_DATA

====
